---------------------------- MODULE Spec2Model ----------------------------
(***************************************************************************)
(* A model of readmore-lines (src/src/readmore.js, the module starting at  *)
(* line 148): the instance registry READMORE_INSTANCES, the style cache    *)
(* CSS_CACHE with the tagged <style> fragments of document.head, the       *)
(* line-height cache LINE_HEIGHT_CACHE, and the toggle handlers bound to   *)
(* each button.  Every exported function is one action; it runs to         *)
(* completion, as a call does on the browser's event loop.                 *)
(***************************************************************************)
EXTENDS Integers, Sequences, FiniteSets, TLC

(***************************************************************************)
(* Bounds of the model.                                                    *)
(***************************************************************************)
\* How many ReadMoreInstance objects (each with its button) are ever built.
MaxObjs == 2
\* The last value of the millisecond clock Date.now().
MaxClock == 1

(***************************************************************************)
(* The document.  "a" and "b" are elements of a container, "root" is       *)
(* document.documentElement (its parentNode is the document itself),       *)
(* "orphan" is an element that was never inserted.  The other argument     *)
(* values a caller can pass are null and a value that is no HTMLElement.   *)
(***************************************************************************)
Elems == {"a", "b", "root", "orphan"}
NonElems == {"null", "invalid"}
Args == Elems \cup NonElems

\* !targetElement
IsFalsy(t) == t = "null"
\* targetElement instanceof HTMLElement
IsHTMLElement(t) == t \in Elems
\* targetElement.parentNode
parentNode(e) ==
    CASE e = "orphan" -> "none"
      [] e = "root"   -> "document"
      [] OTHER        -> "container"

\* parentNode.insertBefore(button, target.nextSibling) raises
\* HierarchyRequestError when the parent is the document: a document holds
\* one element child.
InsertBeforeThrows(e) == parentNode(e) = "document"

(***************************************************************************)
(* JavaScript values of the options.  Numbers are kept in halves (n2 is    *)
(* twice the number) so that a non-integer such as 1.5 is a value.         *)
(***************************************************************************)
Undef == [k |-> "undefined", s |-> "", n2 |-> 0]
Str(x) == [k |-> "string", s |-> x, n2 |-> 0]
Num(x) == [k |-> "number", s |-> "", n2 |-> 2 * x]
Half(x2) == [k |-> "number", s |-> "", n2 |-> x2]

\* A faulty variant: v ?? d, which keeps an empty string
StrOrNullish(v, d) == IF v.k = "string" THEN v.s ELSE d
\* v || d for a string option
StrOr(v, d) == IF v.k = "string" /\ v.s # "" THEN v.s ELSE d
\* v || d for the number option (validated: an integer >= 1, or undefined)
NumOr(v, d) == IF v.k = "number" /\ v.n2 # 0 THEN v.n2 \div 2 ELSE d

\* The not-a-number of parseInt and countLines.  offsetHeight and a computed
\* line height are never negative, so no number of the model equals it.
NaN == -1
isNaN(x) == x = NaN
\* a < b of JavaScript: false when an operand is NaN
LessThan(a, b) == ~isNaN(a) /\ ~isNaN(b) /\ a < b


\* A faulty variant: Math.floor(h / l)
MathFloor(h, l) == h \div l
\* Math.round(h / l) for positive h and l: the nearest integer, half up
MathRound(h, l) == (2 * h + l) \div (2 * l)

(***************************************************************************)
(* Finite maps (WeakMap, Map) as functions on the set of their keys.       *)
(***************************************************************************)
EmptyMap == [x \in {} |-> 0]
MapSet(f, k, v) == [x \in DOMAIN f \cup {k} |-> IF x = k THEN v ELSE f[x]]
MapDelete(f, k) == [x \in DOMAIN f \ {k} |-> f[x]]

(***************************************************************************)
(* The state.                                                              *)
(*   reg       READMORE_INSTANCES: element -> index of its instance in objs*)
(*   objs      every ReadMoreInstance built so far, with its button        *)
(*   after     per element, the buttons attached right after it, nearest   *)
(*             first (the parent's child list between it and the next)     *)
(*   classes   element.classList                                           *)
(*   marker    element.dataset.readmoreLinesEnabled is set                 *)
(*   ids       element.id ("" when it has none)                            *)
(*   now       Date.now()                                                  *)
(*   styleDom  the <style data-readmore-lines-cache=key> of document.head, *)
(*             a bag of keys                                               *)
(*   cssCache  CSS_CACHE                                                   *)
(*   lhCache   LINE_HEIGHT_CACHE: element -> line height                   *)
(*   last      the last call or event and what it returned (history)       *)
(***************************************************************************)
VARIABLES reg, objs, after, classes, marker, ids, now, styleDom, cssCache,
          lhCache, last

vars == <<reg, objs, after, classes, marker, ids, now, styleDom, cssCache,
          lhCache, last>>

\* The registry, the document and the style cache: everything except the
\* clock, the line-height cache and the history.
page == <<reg, objs, after, classes, marker, ids, styleDom, cssCache>>

Last(op, el, out, count, limit, obj, prevented) ==
    [op |-> op, el |-> el, out |-> out, count |-> count, limit |-> limit,
     obj |-> obj, prevented |-> prevented]

\* element.id as the page's author wrote it
AuthoredIds == [e \in Elems |-> CASE e = "a" -> "target"
                                  [] e = "b" -> "content"
                                  [] e = "root" -> "doc"
                                  [] OTHER -> ""]

InitWith(elementIds) ==
    /\ reg = EmptyMap
    /\ objs = <<>>
    /\ after = [e \in Elems |-> <<>>]
    /\ classes = [e \in Elems |-> {}]
    /\ marker = [e \in Elems |-> FALSE]
    /\ ids = elementIds
    /\ now = 0
    /\ styleDom = EmptyMap
    /\ cssCache = {}
    /\ lhCache = EmptyMap
    /\ last = Last("init", "null", "", NaN, 0, 0, FALSE)

Init == InitWith(AuthoredIds)

(***************************************************************************)
(* Lookups (pure).                                                         *)
(***************************************************************************)
\* A faulty variant: the duplicate check of the first version of readmore(): by the
\* truncation class on the element, which a toggle removes
hasTruncationClass(e) == classes[e] # {}
hasReadMoreInstance(e) == e \in DOMAIN reg
\* the instance's index in objs; 0 is null
getReadMoreInstance(e) == IF e \in DOMAIN reg THEN reg[e] ELSE 0
isStyleCached(key) == key \in cssCache
isLineHeightCached(e) == e \in DOMAIN lhCache

\* How many <style> fragments of document.head carry the key.
StyleCount(sd, key) == IF key \in DOMAIN sd THEN sd[key] ELSE 0
\* document.head.querySelector('[data-readmore-lines-cache="key"]')
QueryStyle(sd, key) == StyleCount(sd, key) > 0
\* document.head.querySelector('[data-readmore-lines-cache]')
QueryAnyStyle(sd) == DOMAIN sd # {}

\* The button of instance i is in the document.
Attached(i) == \E n \in 1..Len(after[objs[i].targetElement]) :
                  after[objs[i].targetElement][n] = i


(***************************************************************************)
(* Options, validation and defaults of readmore().                         *)
(***************************************************************************)
Options(tc, lc, more, less, limit) ==
    [targetClass |-> tc, linkClass |-> lc, readMoreLabel |-> more,
     readLessLabel |-> less, linesLimit |-> limit]

\* linesLimit !== undefined && (typeof linesLimit !== 'number' ||
\*     linesLimit < 1 || !Number.isInteger(linesLimit))
LinesLimitInvalid(v) ==
    v.k # "undefined" /\ (v.k # "number" \/ v.n2 < 2 \/ v.n2 % 2 # 0)
\* x !== undefined && typeof x !== 'string'
StringInvalid(v) == v.k # "undefined" /\ v.k # "string"

\* A faulty variant: the validation sequence without its check of
\* targetElement.parentNode
ValidationErrorNoParent(t, o) ==
    CASE IsFalsy(t)                        -> "targetElement is required"
      [] ~IsHTMLElement(t)                 -> "targetElement must be a valid HTMLElement"
      [] LinesLimitInvalid(o.linesLimit)   -> "linesLimit must be a positive integer"
      [] StringInvalid(o.readMoreLabel)    -> "readMoreLabel must be a string"
      [] StringInvalid(o.readLessLabel)    -> "readLessLabel must be a string"
      [] StringInvalid(o.targetClass)      -> "targetClass must be a string"
      [] StringInvalid(o.linkClass)        -> "linkClass must be a string"
      [] OTHER                             -> ""

\* The validation sequence; "" when every check passes.
ValidationError(t, o) ==
    CASE IsFalsy(t)                        -> "targetElement is required"
      [] ~IsHTMLElement(t)                 -> "targetElement must be a valid HTMLElement"
      [] parentNode(t) = "none"            -> "targetElement must have a parent node"
      [] LinesLimitInvalid(o.linesLimit)   -> "linesLimit must be a positive integer"
      [] StringInvalid(o.readMoreLabel)    -> "readMoreLabel must be a string"
      [] StringInvalid(o.readLessLabel)    -> "readLessLabel must be a string"
      [] StringInvalid(o.targetClass)      -> "targetClass must be a string"
      [] StringInvalid(o.linkClass)        -> "linkClass must be a string"
      [] OTHER                             -> ""

DefaultLinesLimit == 8

\* instanceConfig, from the defaults LINES_LIMIT .. READ_LESS_LABEL
ResolveConfig(o) ==
    [targetClass   |-> StrOr(o.targetClass, "read-more-target"),
     linkClass     |-> StrOr(o.linkClass, "read-more-link"),
     readMoreLabel |-> StrOr(o.readMoreLabel, "Read more..."),
     readLessLabel |-> StrOr(o.readLessLabel, "Read less"),
     linesLimit    |-> NumOr(o.linesLimit, DefaultLinesLimit)]

\* A faulty variant: a key made of the class alone
CacheKeyClassOnly(tc, limit) == "readmore-lines-styles-" \o tc
\* cssCacheKey
CacheKey(tc, limit) ==
    "readmore-lines-styles-" \o tc \o "-" \o ToString(limit)

\* `readmore-content-${Date.now()}`
GenId(t) == "readmore-content-" \o ToString(t)

(***************************************************************************)
(* Measurement.                                                            *)
(***************************************************************************)
\* A faulty variant: getLineHeight that asks the layout engine on every
\* call and overwrites the entry
getLineHeightUncached(cache, e, computed) ==
    [value |-> computed, cache |-> MapSet(cache, e, computed)]

\* A faulty variant: getLineHeight that never stores what it computed
getLineHeightNoStore(cache, e, computed) ==
    [value |-> IF e \in DOMAIN cache THEN cache[e] ELSE computed,
     cache |-> cache]

\* getLineHeight(element), where computed is what
\* parseInt(getComputedStyle(element).lineHeight, 10) yields now: the value
\* returned and the cache afterwards.
getLineHeight(cache, e, computed) ==
    IF e \in DOMAIN cache
    THEN [value |-> cache[e], cache |-> cache]
    ELSE [value |-> computed, cache |-> MapSet(cache, e, computed)]

\* countLines(element) from element.offsetHeight and the line height
countLines(e, divHeight, lineHeight) ==
    IF IsFalsy(e) \/ ~IsHTMLElement(e) THEN NaN
    ELSE IF isNaN(lineHeight) \/ isNaN(divHeight)
            \/ lineHeight <= 0 \/ divHeight <= 0 THEN NaN
    ELSE MathRound(divHeight, lineHeight)

\* A faulty variant: the operands of the gate swapped
BelowLimitSwapped(count, limit) == LessThan(limit, count)
\* countLines(targetElement) < LINES_LIMIT
BelowLimit(count, limit) == LessThan(count, limit)

(***************************************************************************)
(* The style cache.                                                        *)
(***************************************************************************)
\* A faulty variant: addStyle without its cache: every call appends a fragment
addStyleUncached(sd, cache, key) ==
    [styleDom |-> MapSet(sd, key, StyleCount(sd, key) + 1),
     cssCache |-> cache \cup {key}]
\* A faulty variant: addStyle that consults CSS_CACHE alone and not
\* document.head
addStyleCacheOnly(sd, cache, key) ==
    IF key \in cache THEN [styleDom |-> sd, cssCache |-> cache]
    ELSE [styleDom |-> MapSet(sd, key, StyleCount(sd, key) + 1),
          cssCache |-> cache \cup {key}]
\* addStyle(styleString, cacheKey): the fragments and CSS_CACHE afterwards
addStyle(sd, cache, key) ==
    IF key \in cache THEN [styleDom |-> sd, cssCache |-> cache]
    ELSE IF QueryStyle(sd, key)
         THEN [styleDom |-> sd, cssCache |-> cache \cup {key}]
    ELSE [styleDom |-> MapSet(sd, key, StyleCount(sd, key) + 1),
          cssCache |-> cache \cup {key}]


(***************************************************************************)
(* readmore(options): one activation.  divHeight and computed are what the *)
(* layout engine answers during the call (element.offsetHeight and the     *)
(* parsed computed line height), dt is how far the clock moves between the *)
(* call's two reads of Date.now().                                         *)
(***************************************************************************)
\* new ReadMoreInstance(targetElement, readMoreLink, instanceConfig) with the
\* button's text and attributes, after both addEventListener calls
NewInstance(t, cfg, ariaControls) ==
    [targetElement |-> t,
     config        |-> cfg,
     innerText     |-> cfg.readMoreLabel,
     ariaExpanded  |-> "false",
     ariaControls  |-> ariaControls,
     listeners     |-> {<<"click", "clickHandler">>,
                        <<"keydown", "keydownHandler">>},
     eventListeners |-> MapSet(MapSet(EmptyMap, "click", "clickHandler"),
                               "keydown", "keydownHandler"),
     isDestroyed   |-> FALSE]

\* A faulty variant: the instance is built and registered and the class is
\* added, but the button is never inserted into the document
CreateDetached(t, cfg, count, dt) ==
    LET key == CacheKey(cfg.targetClass, cfg.linesLimit)
        st == addStyle(styleDom, cssCache, key)
        i == Len(objs) + 1
        ariaControls == IF ids[t] # "" THEN ids[t] ELSE GenId(now)
    IN  /\ Len(objs) < MaxObjs
        /\ now + dt <= MaxClock
        /\ styleDom' = st.styleDom
        /\ cssCache' = st.cssCache
        /\ ids' = IF ids[t] # "" THEN ids
                  ELSE [ids EXCEPT ![t] = GenId(now + dt)]
        /\ now' = now + dt
        /\ after' = after
        /\ classes' = [classes EXCEPT ![t] = @ \cup {cfg.targetClass}]
        /\ objs' = Append(objs, NewInstance(t, cfg, ariaControls))
        /\ reg' = MapSet(reg, t, i)
        /\ marker' = [marker EXCEPT ![t] = TRUE]
        /\ last' = Last("readmore", t, "created", count, cfg.linesLimit, i,
                        FALSE)

Create(t, cfg, count, dt) ==
    LET key == CacheKey(cfg.targetClass, cfg.linesLimit)
        st == addStyle(styleDom, cssCache, key)
        i == Len(objs) + 1
        ariaControls == IF ids[t] # "" THEN ids[t] ELSE GenId(now)
        inserted == ~InsertBeforeThrows(t)
    IN  /\ Len(objs) < MaxObjs
        /\ now + dt <= MaxClock
        /\ styleDom' = st.styleDom
        /\ cssCache' = st.cssCache
        /\ ids' = IF ids[t] # "" THEN ids
                  ELSE [ids EXCEPT ![t] = GenId(now + dt)]
        /\ now' = now + dt
        \* try { insertBefore; classList.add } catch { console.error }
        /\ after' = IF inserted THEN [after EXCEPT ![t] = <<i>> \o @]
                    ELSE after
        /\ classes' = IF inserted
                      THEN [classes EXCEPT ![t] = @ \cup {cfg.targetClass}]
                      ELSE classes
        /\ objs' = Append(objs, NewInstance(t, cfg, ariaControls))
        /\ reg' = MapSet(reg, t, i)
        /\ marker' = [marker EXCEPT ![t] = TRUE]
        /\ last' = Last("readmore", t,
                        IF inserted THEN "created" ELSE "insertFailed",
                        count, cfg.linesLimit, i, FALSE)

Readmore(t, o, divHeight, computed, dt) ==
    IF ValidationError(t, o) # ""
    THEN /\ last' = Last("readmore", t, "invalid", NaN, 0, 0, FALSE)
         /\ UNCHANGED <<page, now, lhCache>>
    ELSE LET cfg == ResolveConfig(o)
             lh == getLineHeight(lhCache, t, computed)
             count == countLines(t, divHeight, lh.value)
         IN  /\ lhCache' = lh.cache
             /\ IF BelowLimit(count, cfg.linesLimit)
                THEN /\ last' = Last("readmore", t, "gated", count,
                                     cfg.linesLimit, 0, FALSE)
                     /\ UNCHANGED <<page, now>>
                ELSE IF hasReadMoreInstance(t)
                THEN /\ last' = Last("readmore", t, "duplicate", count,
                                     cfg.linesLimit, reg[t], FALSE)
                     /\ UNCHANGED <<page, now>>
                ELSE Create(t, cfg, count, dt)

(***************************************************************************)
(* Events on a button.  An event reaches the listeners the button holds,   *)
(* whether or not the button is in the document (button.click() and        *)
(* dispatchEvent run them on a detached node too).                         *)
(***************************************************************************)
\* classList.toggle(token)
ClassListToggle(cs, token) ==
    IF token \in cs THEN cs \ {token} ELSE cs \cup {token}

\* toggleContent of an instance o, run on its target's classList cs: the
\* classList, the button's aria-expanded and its text afterwards
toggleContent(cs, o) ==
    LET toggled == ClassListToggle(cs, o.config.targetClass)
        isExpanded == o.config.targetClass \notin toggled
    IN  [classList |-> toggled,
         ariaExpanded |-> IF isExpanded THEN "true" ELSE "false",
         innerText |-> IF o.config.targetClass \in toggled
                       THEN o.config.readMoreLabel
                       ELSE o.config.readLessLabel]

Toggled(i) ==
    LET r == toggleContent(classes[objs[i].targetElement], objs[i])
    IN  /\ classes' = [classes EXCEPT ![objs[i].targetElement] = r.classList]
        /\ objs' = [objs EXCEPT ![i].ariaExpanded = r.ariaExpanded,
                                ![i].innerText = r.innerText]
        /\ UNCHANGED <<reg, after, marker, ids, now, styleDom, cssCache,
                       lhCache>>

\* A click on the button of instance i: clickHandler, when it is attached
Click(i) ==
    IF <<"click", "clickHandler">> \in objs[i].listeners
    THEN /\ Toggled(i)
         /\ last' = Last("click", objs[i].targetElement, "toggled",
                         NaN, 0, i, TRUE)
    ELSE /\ last' = Last("click", objs[i].targetElement, "unheard",
                         NaN, 0, i, FALSE)
         /\ UNCHANGED <<page, now, lhCache>>

Keys == {"Enter", " ", "Tab"}

\* A faulty variant: a keydownHandler that does not look at event.key
KeydownAnyKey(i, key) ==
    IF <<"keydown", "keydownHandler">> \in objs[i].listeners
    THEN /\ Toggled(i)
         /\ last' = Last("keydown", objs[i].targetElement, "toggled",
                         NaN, 0, i, TRUE)
    ELSE /\ last' = Last("keydown", objs[i].targetElement, "unheard",
                         NaN, 0, i, FALSE)
         /\ UNCHANGED <<page, now, lhCache>>

\* A keydown on the button of instance i: keydownHandler, when attached
Keydown(i, key) ==
    IF <<"keydown", "keydownHandler">> \in objs[i].listeners
    THEN IF key = "Enter" \/ key = " "
         THEN /\ Toggled(i)
              /\ last' = Last("keydown", objs[i].targetElement, "toggled",
                              NaN, 0, i, TRUE)
         ELSE /\ last' = Last("keydown", objs[i].targetElement, "ignored",
                              NaN, 0, i, FALSE)
              /\ UNCHANGED <<page, now, lhCache>>
    ELSE /\ last' = Last("keydown", objs[i].targetElement, "unheard",
                         NaN, 0, i, FALSE)
         /\ UNCHANGED <<page, now, lhCache>>

(***************************************************************************)
(* Teardown.                                                               *)
(***************************************************************************)
\* A faulty variant: invalidation that empties LINE_HEIGHT_CACHE
clearLineHeightCache(cache, e) == IF IsFalsy(e) THEN cache ELSE EmptyMap
\* invalidateLineHeightCache(element): LINE_HEIGHT_CACHE afterwards
invalidateLineHeightCache(cache, e) ==
    IF IsFalsy(e) THEN cache ELSE MapDelete(cache, e)

\* A faulty variant: removeEventListener called with handlers derived anew
\* at removal time, which are not the functions that were added: nothing
\* is removed from the button
removeRederivedListeners(o) == o.listeners

\* removeAllEventListeners(): the button's listeners afterwards; each Map
\* entry (type, listener) is removed from the button
removeAllEventListeners(o) ==
    o.listeners \ {<<ty, o.eventListeners[ty]>> : ty \in DOMAIN o.eventListeners}

\* The sequence s without the value v.
Without(s, v) == SelectSeq(s, LAMBDA x : x # v)

\* A faulty variant: destroy() that leaves the truncation class on the target
InstanceDestroyKeepsClass(i) ==
    LET o == objs[i]
        t == o.targetElement
    IN  IF o.isDestroyed
        THEN [objs |-> objs, after |-> after, classes |-> classes,
              marker |-> marker, lhCache |-> lhCache]
        ELSE [objs |-> [objs EXCEPT ![i].listeners = removeAllEventListeners(o),
                                    ![i].eventListeners = EmptyMap,
                                    ![i].isDestroyed = TRUE],
              after |-> [after EXCEPT ![t] = Without(@, i)],
              classes |-> classes,
              marker |-> [marker EXCEPT ![t] = FALSE],
              lhCache |-> invalidateLineHeightCache(lhCache, t)]

\* ReadMoreInstance.destroy() of instance i: what it leaves behind
InstanceDestroy(i) ==
    LET o == objs[i]
        t == o.targetElement
    IN  IF o.isDestroyed
        THEN [objs |-> objs, after |-> after, classes |-> classes,
              marker |-> marker, lhCache |-> lhCache]
        ELSE [objs |-> [objs EXCEPT ![i].listeners = removeAllEventListeners(o),
                                    ![i].eventListeners = EmptyMap,
                                    ![i].isDestroyed = TRUE],
              after |-> [after EXCEPT ![t] = Without(@, i)],
              classes |-> [classes EXCEPT ![t] = @ \ {o.config.targetClass}],
              marker |-> [marker EXCEPT ![t] = FALSE],
              lhCache |-> invalidateLineHeightCache(lhCache, t)]

\* A faulty variant: a test that holds whatever the registry holds
InstancesAlwaysNone(r) == TRUE
\* READMORE_INSTANCES.size === 0.  READMORE_INSTANCES is a WeakMap, which has
\* no size property: the comparison is undefined === 0, whatever it holds.
InstancesSizeIsZero(r) == FALSE

\* A faulty variant: clearReadMoreCache that empties CSS_CACHE and leaves
\* the fragments in document.head
ClearCssCacheOnly ==
    /\ cssCache' = {}
    /\ last' = Last("clearReadMoreCache", "null", "", NaN, 0, 0, FALSE)
    /\ UNCHANGED <<reg, objs, after, classes, marker, ids, now, styleDom,
                   lhCache>>

\* clearReadMoreCache()
ClearReadMoreCache ==
    /\ styleDom' = EmptyMap
    /\ cssCache' = {}
    /\ last' = Last("clearReadMoreCache", "null", "", NaN, 0, 0, FALSE)
    /\ UNCHANGED <<reg, objs, after, classes, marker, ids, now, lhCache>>

\* A faulty variant: destroyReadMore that drops the element's cached line
\* height before it looks the instance up
DestroyReadMoreEager(t) ==
    IF IsFalsy(t) \/ ~IsHTMLElement(t) \/ getReadMoreInstance(t) = 0
    THEN /\ last' = Last("destroyReadMore", t, "false", NaN, 0, 0, FALSE)
         /\ lhCache' = invalidateLineHeightCache(lhCache, t)
         /\ UNCHANGED <<page, now>>
    ELSE LET i == reg[t]
             d == InstanceDestroy(i)
         IN  /\ objs' = d.objs
             /\ after' = d.after
             /\ classes' = d.classes
             /\ marker' = d.marker
             /\ lhCache' = d.lhCache
             /\ reg' = MapDelete(reg, t)
             /\ last' = Last("destroyReadMore", t, "true", NaN, 0, i, FALSE)
             /\ UNCHANGED <<ids, now, styleDom, cssCache>>

\* destroyReadMore(targetElement)
DestroyReadMore(t) ==
    IF IsFalsy(t) \/ ~IsHTMLElement(t) \/ getReadMoreInstance(t) = 0
    THEN /\ last' = Last("destroyReadMore", t, "false", NaN, 0, 0, FALSE)
         /\ UNCHANGED <<page, now, lhCache>>
    ELSE LET i == reg[t]
             d == InstanceDestroy(i)
             r == MapDelete(reg, t)
             purge == InstancesSizeIsZero(r) /\ QueryAnyStyle(styleDom)
         IN  /\ objs' = d.objs
             /\ after' = d.after
             /\ classes' = d.classes
             /\ marker' = d.marker
             /\ lhCache' = d.lhCache
             /\ reg' = r
             /\ styleDom' = IF purge THEN EmptyMap ELSE styleDom
             /\ cssCache' = IF purge THEN {} ELSE cssCache
             /\ last' = Last("destroyReadMore", t, "true", NaN, 0, i, FALSE)
             /\ UNCHANGED <<ids, now>>

\* invalidateLineHeightCache(element), called by the page
InvalidateLineHeightCache(t) ==
    /\ lhCache' = invalidateLineHeightCache(lhCache, t)
    /\ last' = Last("invalidateLineHeightCache", t, "", NaN, 0, 0, FALSE)
    /\ UNCHANGED <<page, now>>

(***************************************************************************)
(* The calls and layouts the model tries.                                  *)
(***************************************************************************)
\* element.offsetHeight, in pixels
Heights == {0, 30, 80}
\* parseInt(getComputedStyle(element).lineHeight, 10): NaN for "normal"
LineHeights == {10}

Defaults == Options(Undef, Undef, Undef, Undef, Undef)
Custom == Options(Str("t"), Str("l"), Str("More"), Str("Less"), Num(3))
Empties == Options(Str(""), Str(""), Str(""), Str(""), Undef)
LimitOnly == Options(Undef, Undef, Undef, Undef, Num(3))
ValidOptions == {Defaults, Custom, Empties}
InvalidOptions ==
    {Options(Undef, Undef, Undef, Undef, v) :
        v \in {Num(0), Num(-1), Half(3), Str("x")}}
    \cup {Options(Num(1), Undef, Undef, Undef, Undef),
          Options(Undef, Num(1), Undef, Undef, Undef),
          Options(Undef, Undef, Num(1), Undef, Undef),
          Options(Undef, Undef, Undef, Num(1), Undef)}

\* The elements that are in the document.
InDocument == {e \in Elems : parentNode(e) # "none"}

\* The page's calls with well-formed arguments, and the events on buttons.
Next ==
    \/ \E t \in InDocument, o \in {Defaults, Custom}, h \in Heights,
          l \in LineHeights : Readmore(t, o, h, l, 0)
    \/ \E i \in 1..Len(objs) : Click(i)
    \/ \E i \in 1..Len(objs), key \in Keys : Keydown(i, key)
    \/ \E t \in InDocument : DestroyReadMore(t)
    \/ ClearReadMoreCache
    \/ \E t \in InDocument : InvalidateLineHeightCache(t)

Spec == Init /\ [][Next]_vars

(***************************************************************************)
(* The calls with every kind of argument: targets that are null, no        *)
(* element or not in a document, and options of the wrong type or range.   *)
(***************************************************************************)
\* The elements of the container.
Contained == {e \in Elems : parentNode(e) = "container"}

\* The calls of readmore() that are to be turned away, as <<target, options>>
RejectedCalls ==
    {<<t, Defaults>> : t \in NonElems \cup {"orphan"}}
    \cup {<<"a", o>> : o \in InvalidOptions}

\* readmore() and readmore(null): the parameter of readmore is an object
\* pattern without a default, and destructuring undefined or null raises
\* TypeError before the first statement of the body; nothing catches it.
ReadmoreNoOptions ==
    /\ last' = Last("readmore", "null", "TypeError", NaN, 0, 0, FALSE)
    /\ UNCHANGED <<page, now, lhCache>>

NextArgs ==
    \/ \E t \in Contained, h \in Heights, l \in LineHeights :
          Readmore(t, Defaults, h, l, 0)
    \/ \E c \in RejectedCalls, h \in Heights, l \in LineHeights :
          Readmore(c[1], c[2], h, l, 0)
    \/ ReadmoreNoOptions
    \/ \E i \in 1..Len(objs) : Click(i)
    \/ \E i \in 1..Len(objs), key \in Keys : Keydown(i, key)
    \/ \E t \in Args : DestroyReadMore(t)
    \/ ClearReadMoreCache
    \/ \E t \in Args : InvalidateLineHeightCache(t)

SpecArgs == Init /\ [][NextArgs]_vars

(***************************************************************************)
(* The page holding the instance itself: getReadMoreInstance returns the   *)
(* ReadMoreInstance object, whose destroy() the page can call.             *)
(***************************************************************************)
\* getReadMoreInstance(t).destroy(), called by the page
DirectDestroy(t) ==
    /\ getReadMoreInstance(t) # 0
    /\ LET d == InstanceDestroy(reg[t])
       IN  /\ objs' = d.objs
           /\ after' = d.after
           /\ classes' = d.classes
           /\ marker' = d.marker
           /\ lhCache' = d.lhCache
    /\ last' = Last("instance.destroy", t, "", NaN, 0, reg[t], FALSE)
    /\ UNCHANGED <<reg, ids, now, styleDom, cssCache>>

NextInst ==
    \/ \E t \in Contained, o \in {Defaults, Custom}, h \in Heights,
          l \in LineHeights : Readmore(t, o, h, l, 0)
    \/ \E i \in 1..Len(objs) : Click(i)
    \/ \E i \in 1..Len(objs), key \in Keys : Keydown(i, key)
    \/ \E t \in Contained : DestroyReadMore(t)
    \/ \E t \in Contained : DirectDestroy(t)

SpecInst == Init /\ [][NextInst]_vars

(***************************************************************************)
(* The clock and the generated ids: elements that carry no id when they    *)
(* are activated, and a clock that may move between any two reads.         *)
(***************************************************************************)
\* The authored ids of the elements of S; the other elements have none.
IdsOf(S) == [e \in Elems |-> IF e \in S THEN AuthoredIds[e] ELSE ""]

\* Which elements of the container the author gave an id is open.
InitClock == \E S \in SUBSET Contained : InitWith(IdsOf(S \cup {"root"}))

\* How far the clock can move between the two Date.now() of one readmore():
\* not at all, or over a millisecond boundary.
Ticks == {0, 1}

\* A millisecond passes between two calls.
Tick ==
    /\ now < MaxClock
    /\ now' = now + 1
    /\ UNCHANGED <<page, lhCache, last>>

NextClock ==
    \/ \E t \in Contained, h \in Heights, l \in LineHeights, dt \in Ticks :
          Readmore(t, Defaults, h, l, dt)
    \/ Tick
    \/ \E i \in 1..Len(objs) : Click(i)
    \/ \E t \in Contained : DestroyReadMore(t)

SpecClock == InitClock /\ [][NextClock]_vars

(***************************************************************************)
(* Layouts whose line height cannot be used: a computed line-height of     *)
(* "normal" (parseInt gives NaN) or of zero, besides a usable one.         *)
(***************************************************************************)
ComputedLineHeights == {NaN, 0, 10}

NextMeasure ==
    \/ \E t \in Contained, o \in {Defaults, Custom}, h \in Heights,
          l \in ComputedLineHeights : Readmore(t, o, h, l, 0)
    \/ \E i \in 1..Len(objs) : Click(i)
    \/ \E t \in Contained : DestroyReadMore(t)
    \/ \E t \in Contained : InvalidateLineHeightCache(t)

SpecMeasure == Init /\ [][NextMeasure]_vars

(***************************************************************************)
(* Every shape of the options: all omitted, all given, empty strings, and  *)
(* a line limit alone; with the style cache cleared at any time.           *)
(***************************************************************************)
AcceptedOptions == ValidOptions \cup {LimitOnly}

NextConfig ==
    \/ \E t \in Contained, o \in AcceptedOptions, h \in Heights,
          l \in LineHeights : Readmore(t, o, h, l, 0)
    \/ \E i \in 1..Len(objs) : Click(i)
    \/ \E t \in Contained : DestroyReadMore(t)
    \/ ClearReadMoreCache

SpecConfig == Init /\ [][NextConfig]_vars

(***************************************************************************)
(* The line count as a function of the box height and the line height:     *)
(* heights that divide evenly, that fall halfway and on either side of it, *)
(* and a line height that changes while an entry is cached.                *)
(***************************************************************************)
BoxHeights == {0, 5, 24, 25, 50, 80}
ParsedLineHeights == {NaN, 0, 10, 20}

NextCount ==
    \/ \E t \in Contained, h \in BoxHeights, l \in ParsedLineHeights :
          Readmore(t, Defaults, h, l, 0)
    \/ \E t \in Contained : DestroyReadMore(t)
    \/ \E t \in Contained : InvalidateLineHeightCache(t)

SpecCount == Init /\ [][NextCount]_vars

(***************************************************************************)
(* A document that already holds tagged fragments when the module is       *)
(* evaluated, with CSS_CACHE empty: another copy of the module (the page   *)
(* loads the UMD bundle and the ES module, or the module is evaluated      *)
(* again) has put them into document.head.                                 *)
(***************************************************************************)
\* The keys of the options the model tries.
ModelKeys ==
    {CacheKey(ResolveConfig(o).targetClass, ResolveConfig(o).linesLimit) :
        o \in AcceptedOptions}

InitAdopt ==
    /\ reg = EmptyMap
    /\ objs = <<>>
    /\ after = [e \in Elems |-> <<>>]
    /\ classes = [e \in Elems |-> {}]
    /\ marker = [e \in Elems |-> FALSE]
    /\ ids = AuthoredIds
    /\ now = 0
    /\ styleDom = [key \in ModelKeys |-> 1]
    /\ cssCache = {}
    /\ lhCache = EmptyMap
    /\ last = Last("init", "null", "", NaN, 0, 0, FALSE)

SpecAdopt == InitAdopt /\ [][NextConfig]_vars

(***************************************************************************)
(* The page registering listeners of its own through the instance:         *)
(* ReadMoreInstance.addEventListener and removeAllEventListeners are       *)
(* methods of the object getReadMoreInstance returns.                      *)
(***************************************************************************)
\* The event types the page registers for.
EventTypes == {"click", "keydown"}

\* getReadMoreInstance(t).addEventListener(type, pageListener): the button
\* gets the listener, and the Map entry of the type is set to it
InstanceAddEventListener(t, type) ==
    /\ getReadMoreInstance(t) # 0
    /\ objs' = [objs EXCEPT
                  ![reg[t]].listeners = @ \cup {<<type, "pageListener">>},
                  ![reg[t]].eventListeners = MapSet(@, type, "pageListener")]
    /\ last' = Last("instance.addEventListener", t, type, NaN, 0, reg[t],
                    FALSE)
    /\ UNCHANGED <<reg, after, classes, marker, ids, now, styleDom, cssCache,
                   lhCache>>

\* getReadMoreInstance(t).removeAllEventListeners()
InstanceRemoveAllEventListeners(t) ==
    /\ getReadMoreInstance(t) # 0
    /\ objs' = [objs EXCEPT
                  ![reg[t]].listeners = removeAllEventListeners(objs[reg[t]]),
                  ![reg[t]].eventListeners = EmptyMap]
    /\ last' = Last("instance.removeAllEventListeners", t, "", NaN, 0,
                    reg[t], FALSE)
    /\ UNCHANGED <<reg, after, classes, marker, ids, now, styleDom, cssCache,
                   lhCache>>

NextListeners ==
    \/ \E t \in Contained, h \in Heights, l \in LineHeights :
          Readmore(t, Defaults, h, l, 0)
    \/ \E i \in 1..Len(objs) : Click(i)
    \/ \E t \in Contained : DestroyReadMore(t)
    \/ \E t \in Contained, type \in EventTypes :
          InstanceAddEventListener(t, type)
    \/ \E t \in Contained : InstanceRemoveAllEventListeners(t)

SpecListeners == Init /\ [][NextListeners]_vars


(***************************************************************************)
(* Properties.                                                             *)
(***************************************************************************)
\* The instances of element e that were not torn down.
LiveInstances(e) ==
    {i \in 1..Len(objs) : objs[i].targetElement = e /\ ~objs[i].isDestroyed}

\* The truncation class of the instance is on its target.
Truncated(i) == objs[i].config.targetClass \in classes[objs[i].targetElement]

\* The two configurations of an instance.
Collapsed(i) ==
    /\ Truncated(i)
    /\ objs[i].innerText = objs[i].config.readMoreLabel
    /\ objs[i].ariaExpanded = "false"
Expanded(i) ==
    /\ ~Truncated(i)
    /\ objs[i].innerText = objs[i].config.readLessLabel
    /\ objs[i].ariaExpanded = "true"

\* The last call was a readmore() that built an instance.
Activated == last.op = "readmore" /\ last.out \in {"created", "insertFailed"}

\* C1: in every reachable state each element has at most one instance that
\* is not torn down, the registry's one, and at most one button attached
\* after it.
C1_OneInstancePerTarget ==
    \A e \in Elems :
        /\ Cardinality(LiveInstances(e)) <= 1
        /\ Len(after[e]) <= 1
        /\ e \in DOMAIN reg => LiveInstances(e) = {reg[e]}

\* A second readmore() reached the registry check on an element whose
\* instance had been expanded (its class is off), and one button is attached.
C1_Witness ==
    /\ last.op = "readmore" /\ last.out = "duplicate"
    /\ Len(after[last.el]) = 1
    /\ ~Truncated(reg[last.el])

\* C2: a readmore() on an element that has an instance changes nothing of
\* the registry, the instances, the buttons, the classes, the markers, the
\* ids or the styles.
C2_IdempotentActivation ==
    [][(last'.op = "readmore" /\ last'.el \in DOMAIN reg)
         => UNCHANGED page]_vars

\* A second readmore(), with another line limit than the instance's, was
\* turned away by the registry.
C2_Witness ==
    /\ last.op = "readmore" /\ last.out = "duplicate"
    /\ last.limit # objs[reg[last.el]].config.linesLimit

\* C3: a readmore() whose line count is a number below the limit changes
\* nothing of the registry, the buttons, the classes, the markers or styles.
C3_GateBelowLimit ==
    [][(last'.op = "readmore" /\ last'.out # "invalid"
          /\ ~isNaN(last'.count) /\ last'.count < last'.limit)
         => UNCHANGED page]_vars

\* readmore() on an element without an instance counted fewer lines than
\* the limit.
C3_Witness ==
    /\ last.op = "readmore" /\ ~isNaN(last.count) /\ last.count < last.limit
    /\ last.el \notin DOMAIN reg
    /\ last.out = "gated"

\* C4 (as claimed): a readmore() whose line count is unknown (NaN) changes
\* nothing of the registry, the buttons, the classes, the markers or styles.
C4_LayoutUnavailableNoOp ==
    [][(last'.op = "readmore" /\ last'.out # "invalid" /\ isNaN(last'.count))
         => UNCHANGED page]_vars

\* C5: document.head never holds two fragments with one key, and after
\* every readmore() that built an instance it holds exactly one fragment
\* with that instance's key.
C5_StyleDedup ==
    /\ \A key \in DOMAIN styleDom : styleDom[key] <= 1
    /\ Activated =>
         StyleCount(styleDom, CacheKey(objs[last.obj].config.targetClass,
                                       objs[last.obj].config.linesLimit)) = 1

\* The second of two elements was activated with the class and limit of
\* the first, which is still registered.
C5_Witness ==
    /\ last.op = "readmore" /\ last.out = "created"
    /\ \E e \in DOMAIN reg :
          /\ e # last.el
          /\ objs[reg[e]].config = objs[last.obj].config

\* C6 (as claimed): when destroyReadMore() removes the last instance, no
\* fragment is left in document.head and CSS_CACHE is empty.
C6_PurgeOnLastDestroy ==
    (last.op = "destroyReadMore" /\ last.out = "true" /\ DOMAIN reg = {})
        => (styleDom = EmptyMap /\ cssCache = {})

\* C7 (as claimed): every registered instance is Collapsed or Expanded.
C7_ToggleStateConsistent ==
    \A e \in DOMAIN reg : Collapsed(reg[e]) \/ Expanded(reg[e])

\* Two runs of toggleContent on instance i give back the classList, the
\* aria-expanded and the text it started from.
RoundTrip(i) ==
    LET o == objs[i]
        once == toggleContent(classes[o.targetElement], o)
        twice == toggleContent(once.classList, o)
    IN  twice = [classList |-> classes[o.targetElement],
                 ariaExpanded |-> o.ariaExpanded,
                 innerText |-> o.innerText]

\* C8 (as claimed): from every state of a registered instance, two toggles
\* restore the class, the label and aria-expanded.
C8_ToggleRoundTrip ==
    \A e \in DOMAIN reg : RoundTrip(reg[e])

\* C9: after destroyReadMore(element) returned true the element has no
\* instance, the destroyed instance's button is not in the document, and
\* the element carries neither the truncation class nor the marker.
C9_DestroyComplete ==
    (last.op = "destroyReadMore" /\ last.out = "true") =>
        /\ ~hasReadMoreInstance(last.el)
        /\ getReadMoreInstance(last.el) = 0
        /\ ~Attached(last.obj)
        /\ after[last.el] = <<>>
        /\ ~Truncated(last.obj)
        /\ ~marker[last.el]

\* destroyReadMore() returned true for an instance that was collapsed: its
\* button still reads the read-more label.
C9_Witness ==
    /\ last.op = "destroyReadMore" /\ last.out = "true"
    /\ objs[last.obj].innerText = objs[last.obj].config.readMoreLabel
    /\ ~InsertBeforeThrows(last.el)
    /\ objs[last.obj].listeners = {}

\* C10 (as claimed): a readmore() that passes the gate on an element whose
\* earlier instance was destroyed registers a new instance, which is
\* Collapsed.
C10_ReactivationStartsCollapsed ==
    (Activated /\ \E j \in 1..Len(objs) :
                     /\ j # last.obj
                     /\ objs[j].targetElement = last.el
                     /\ objs[j].isDestroyed)
        => (reg[last.el] = last.obj /\ Collapsed(last.obj))

\* C11: destroyReadMore(target) returns true exactly when the registry held
\* an instance for target before the call; for null, a value that is no
\* element, or an element without an instance it returns false and leaves
\* the registry, the instances and buttons, the document, the styles and
\* the line-height cache as they were.
C11_DestroyResult ==
    [][(last'.op = "destroyReadMore") =>
          /\ last'.out \in {"true", "false"}
          /\ (last'.out = "true") <=> (last'.el \in DOMAIN reg)
          /\ (last'.el \notin DOMAIN reg) => UNCHANGED <<page, lhCache>>]_vars

\* destroyReadMore() returned false for an element that has a cached line
\* height and no instance, while another element has an instance and a
\* style fragment is in document.head.
C11_Witness ==
    /\ last.op = "destroyReadMore" /\ last.out = "false"
    /\ last.el \in DOMAIN lhCache
    /\ DOMAIN reg # {}
    /\ QueryAnyStyle(styleDom)

\* C12: a readmore() whose target is missing or null, is no element or has
\* no parent, whose linesLimit is zero, negative, not an integer or not a
\* number, or one of whose label or class options is not a string, reports
\* a validation message and changes nothing: not the registry, the
\* instances and buttons, the target's class, marker or id, the styles,
\* the clock's reading or the line-height cache.
C12_ValidationRejection ==
    [][(last'.op = "readmore") =>
          \A c \in RejectedCalls, h \in Heights, l \in LineHeights :
              Readmore(c[1], c[2], h, l, 0) =>
                  /\ ValidationError(c[1], c[2]) # ""
                  /\ last'.out = "invalid"
                  /\ UNCHANGED <<page, now, lhCache>>]_vars

\* readmore() was turned away on an element that has no parent, while
\* another element has an instance.
C12_Witness ==
    /\ last.op = "readmore" /\ last.out = "invalid"
    /\ parentNode(last.el) = "none"
    /\ DOMAIN reg # {}
    /\ last.el \notin DOMAIN lhCache

\* C13 (as claimed): after a readmore() whose insertBefore failed, the
\* element has no instance in the registry and no marker, and the button
\* that was built holds no listeners.
C13_InsertionFailureLeavesNothing ==
    (last.op = "readmore" /\ last.out = "insertFailed") =>
        /\ last.el \notin DOMAIN reg
        /\ ~marker[last.el]
        /\ objs[last.obj].listeners = {}

\* C14 (as claimed): an instance that was torn down holds no listener on
\* its button,
\* and a click or a keydown (Enter and Space included) delivered to the
\* button of a torn-down instance changes no class of any element and no
\* attribute or text of any button.
C14_ListenerCleanup ==
    /\ [](\A i \in 1..Len(objs) :
             objs[i].isDestroyed => objs[i].listeners = {})
    /\ [][(last'.op \in {"click", "keydown"}
            /\ objs[last'.obj].isDestroyed)
           => UNCHANGED <<page, lhCache>>]_vars

\* A keydown reached the button of an instance that destroyReadMore() had
\* torn down while it was expanded, after its element was activated again.
C14_Witness ==
    /\ last.op = "keydown" /\ last.out = "unheard"
    /\ objs[last.obj].isDestroyed
    /\ objs[last.obj].innerText = objs[last.obj].config.readLessLabel
    /\ last.el \in DOMAIN reg
    /\ Collapsed(reg[last.el])

\* C15 (as claimed): after every readmore() that built an instance and
\* inserted its button, the button's aria-controls is the element's id,
\* whether the element had an id or was given a generated one.
C15_AriaControlsIsTargetId ==
    (last.op = "readmore" /\ last.out = "created") =>
        objs[last.obj].ariaControls = ids[last.el]

\* The id of element e is one readmore() generated from the clock.
Generated(e) == \E t \in 0..MaxClock : ids[e] = GenId(t)

\* C16 (as claimed): two distinct elements whose ids were generated by
\* readmore() have different ids.
C16_GeneratedIdsUnique ==
    \A e1, e2 \in Elems :
        (e1 # e2 /\ Generated(e1) /\ Generated(e2)) => ids[e1] # ids[e2]

\* C17 (as claimed): in every reachable state an element carries the
\* marker data-readmore-lines-enabled exactly when the registry holds an
\* instance for it.
C17_MarkerCoherence ==
    \A e \in Elems : marker[e] <=> e \in DOMAIN reg

\* C18 (as claimed): in every reachable state every instance the registry
\* holds is live: it is not destroyed, its button is in the document and
\* the button holds its click and keydown listeners.
C18_RegistryHoldsLiveInstances ==
    \A e \in DOMAIN reg :
        /\ ~objs[reg[e]].isDestroyed
        /\ Attached(reg[e])
        /\ objs[reg[e]].listeners =
               {<<"click", "clickHandler">>, <<"keydown", "keydownHandler">>}

\* C19 (as claimed): LINE_HEIGHT_CACHE never holds a line height that is
\* not a number or not positive, so the next countLines of an element
\* whose line height could not be computed computes it again.
C19_FailedMeasurementNotCached ==
    \A e \in DOMAIN lhCache : ~isNaN(lhCache[e]) /\ lhCache[e] > 0

\* C20: invalidateLineHeightCache(element) leaves no entry for the element,
\* keeps every other element's entry as it was and adds none, and changes
\* nothing of the registry, the instances and buttons, the document or the
\* styles; for null and for an element without an entry the cache is
\* unchanged.
C20_InvalidateFrame ==
    [][(last'.op = "invalidateLineHeightCache") =>
          /\ last'.el \notin DOMAIN lhCache'
          /\ DOMAIN lhCache' = DOMAIN lhCache \ {last'.el}
          /\ \A e \in DOMAIN lhCache' : lhCache'[e] = lhCache[e]
          /\ (IsFalsy(last'.el) \/ last'.el \notin DOMAIN lhCache)
                => UNCHANGED lhCache
          /\ UNCHANGED <<page, now>>]_vars

\* invalidateLineHeightCache() was called on an element that has an
\* instance and left it without an entry, while the other element of the
\* container keeps its entry.
C20_Witness ==
    /\ last.op = "invalidateLineHeightCache"
    /\ last.el \in DOMAIN reg
    /\ last.el \notin DOMAIN lhCache
    /\ \E e \in Contained : e # last.el /\ e \in DOMAIN lhCache

\* The style key of a configuration, and of instance i.
ConfigKey(cfg) == CacheKey(cfg.targetClass, cfg.linesLimit)
KeyOf(i) == ConfigKey(objs[i].config)

\* C21: after clearReadMoreCache() document.head holds no tagged fragment
\* and CSS_CACHE holds no key; a readmore() that builds an instance leaves
\* exactly one fragment with its key, and the key in CSS_CACHE, and adds
\* no fragment with another key.
C21_PurgeThenRematerialize ==
    /\ [](last.op = "clearReadMoreCache" =>
             /\ ~QueryAnyStyle(styleDom)
             /\ \A key \in DOMAIN styleDom \cup cssCache : ~isStyleCached(key))
    /\ [][(last'.op = "readmore" /\ last'.out = "created")
           => LET mine == ConfigKey(objs'[last'.obj].config)
              IN  /\ StyleCount(styleDom', mine) = 1
                  /\ mine \in cssCache'
                  /\ \A key \in DOMAIN styleDom' \ {mine} :
                        StyleCount(styleDom', key) = StyleCount(styleDom, key)
          ]_vars

\* readmore() built an instance after a clearReadMoreCache(): another
\* registered instance's key is gone from CSS_CACHE, the new one's is there.
C21_Witness ==
    /\ last.op = "readmore" /\ last.out = "created"
    /\ \E e \in DOMAIN reg : ~isStyleCached(KeyOf(reg[e]))
    /\ isStyleCached(KeyOf(last.obj))
    /\ StyleCount(styleDom, KeyOf(last.obj)) = 1

\* C22 (as claimed): no call of an exported function ends by raising an
\* exception to its caller.
C22_NoOperationRaises ==
    last.out # "TypeError"

\* C23 (as claimed): every click, Enter keydown and Space keydown on the
\* button of an instance that was not torn down calls preventDefault and
\* takes the instance from Collapsed to Expanded or from Expanded to
\* Collapsed.
C23_EveryActivationFlips ==
    [][(last'.op \in {"click", "keydown"}) =>
          \A i \in 1..Len(objs) :
              (~objs[i].isDestroyed
               /\ (Click(i) \/ Keydown(i, "Enter") \/ Keydown(i, " ")))
              => /\ last'.prevented
                 /\ \/ Collapsed(i) /\ Expanded(i)'
                    \/ Expanded(i) /\ Collapsed(i)']_vars

\* An option that was given: neither omitted nor the empty string.
Given(v) == v.k # "undefined" /\ ~(v.k = "string" /\ v.s = "")

\* The configuration the documentation promises for the options o.
DocumentedConfig(o) ==
    [targetClass   |-> IF Given(o.targetClass) THEN o.targetClass.s
                       ELSE "read-more-target",
     linkClass     |-> IF Given(o.linkClass) THEN o.linkClass.s
                       ELSE "read-more-link",
     readMoreLabel |-> IF Given(o.readMoreLabel) THEN o.readMoreLabel.s
                       ELSE "Read more...",
     readLessLabel |-> IF Given(o.readLessLabel) THEN o.readLessLabel.s
                       ELSE "Read less",
     linesLimit    |-> IF o.linesLimit.k = "undefined" THEN DefaultLinesLimit
                       ELSE o.linesLimit.n2 \div 2]

\* C24: the config of every registered instance has five fields, none of
\* its strings is empty and its linesLimit is an integer of at least 1;
\* and the config of an instance that readmore() builds is the options
\* with each omitted or empty one replaced by its default.
C24_ResolvedConfig ==
    /\ [](\A e \in DOMAIN reg :
             LET cfg == objs[reg[e]].config
             IN  /\ DOMAIN cfg = {"targetClass", "linkClass", "readMoreLabel",
                                  "readLessLabel", "linesLimit"}
                 /\ \A f \in DOMAIN cfg \ {"linesLimit"} : cfg[f] # ""
                 /\ cfg.linesLimit \in Int /\ cfg.linesLimit >= 1)
    /\ [][(last'.op = "readmore" /\ last'.out = "created") =>
           \A o \in AcceptedOptions, h \in Heights, l \in LineHeights :
               Readmore(last'.el, o, h, l, 0)
                   => objs'[last'.obj].config = DocumentedConfig(o)]_vars

\* readmore() built an instance from a line limit alone: the limit given,
\* the two classes and the two labels the defaults.
C24_Witness ==
    /\ last.op = "readmore" /\ last.out = "created"
    /\ objs[last.obj].config.linesLimit # DefaultLinesLimit
    /\ objs[last.obj].config.targetClass = "read-more-target"
    /\ objs[last.obj].config.readLessLabel = "Read less"

\* C25 (as claimed): a readmore() whose line count is a number that does
\* not exceed the limit, the limit itself included, changes nothing of the
\* registry, the instances and buttons, the classes, the markers, the ids
\* or the styles.
C25_GateNotExceeding ==
    [][(last'.op = "readmore" /\ last'.out # "invalid"
          /\ ~isNaN(last'.count) /\ last'.count <= last'.limit)
         => UNCHANGED page]_vars

\* n is the integer nearest to h / l, the upper one when two are as near.
Nearest(n, h, l) == 2 * (n * l - h) <= l /\ 2 * (h - n * l) < l

\* x is a number and positive.
Usable(x) == ~isNaN(x) /\ x > 0

\* C26: the line count of a readmore() is the integer nearest to the box
\* height over the line height in use (the cached one), halves rounded up,
\* when both are positive numbers, and NaN otherwise; it depends on these
\* two alone.
C26_LineCountEstimate ==
    [][(last'.op = "readmore") =>
          \A t \in Contained, h \in BoxHeights, l \in ParsedLineHeights :
              Readmore(t, Defaults, h, l, 0) =>
                  IF Usable(h) /\ Usable(lhCache'[t])
                  THEN /\ ~isNaN(last'.count)
                       /\ Nearest(last'.count, h, lhCache'[t])
                  ELSE isNaN(last'.count)]_vars

\* readmore() counted three lines from a line height of 10: a box height
\* of 25, which is halfway between two and three lines.
C26_Witness ==
    /\ last.op = "readmore" /\ last.count = 3
    /\ last.el \in DOMAIN lhCache
    /\ lhCache[last.el] = 10

\* C28: a readmore() on an element that has a cached line height counts
\* with the cached value, whatever the layout engine would answer now, and
\* leaves the entry as it is; on an element without an entry it counts
\* with the layout engine's answer and caches it; and an entry goes away
\* only by invalidateLineHeightCache or destroyReadMore of its element.
C28_ManualCacheCoherency ==
    /\ [][(last'.op = "readmore") =>
            \A t \in Contained, h \in BoxHeights, l \in ParsedLineHeights :
                Readmore(t, Defaults, h, l, 0) =>
                    IF t \in DOMAIN lhCache
                    THEN /\ lhCache' = lhCache
                         /\ last'.count = countLines(t, h, lhCache[t])
                    ELSE /\ lhCache' = MapSet(lhCache, t, l)
                         /\ last'.count = countLines(t, h, l)]_vars
    /\ [][\A e \in DOMAIN lhCache :
            \/ e \in DOMAIN lhCache' /\ lhCache'[e] = lhCache[e]
            \/ /\ last'.op \in {"invalidateLineHeightCache",
                                "destroyReadMore"}
               /\ last'.el = e]_vars

\* readmore() on an element that has an instance, so that it was measured
\* before, counted four lines with the cached line height of 20: fewer
\* than at its activation, and the call returned at the gate.
C28_Witness ==
    /\ last.op = "readmore" /\ last.out = "gated"
    /\ last.el \in DOMAIN reg
    /\ last.count = 4
    /\ lhCache[last.el] = 20

\* C27: a keydown with a key other than Enter and Space on the button of
\* an instance that was not torn down changes nothing: not the element's
\* classes, the button's text or aria-expanded, the registry, the styles
\* or the line-height cache; and preventDefault is not called.
C27_OtherKeysNoTransition ==
    [][(last'.op = "keydown") =>
          \A i \in 1..Len(objs), key \in Keys \ {"Enter", " "} :
              (~objs[i].isDestroyed /\ Keydown(i, key))
              => /\ UNCHANGED <<page, now, lhCache>>
                 /\ ~last'.prevented]_vars

\* A keydown that the handler ignored reached the button of a registered
\* instance that is expanded.
C27_Witness ==
    /\ last.op = "keydown" /\ last.out = "ignored"
    /\ last.el \in DOMAIN reg /\ reg[last.el] = last.obj
    /\ Expanded(last.obj)

\* C29 (as claimed): after destroyReadMore(element) returned true the
\* element has no cached line height, and every other element's entry is
\* as it was before the call.
C29_DestroyDropsMeasurement ==
    [][(last'.op = "destroyReadMore" /\ last'.out = "true") =>
          /\ last'.el \notin DOMAIN lhCache'
          /\ DOMAIN lhCache' = DOMAIN lhCache \ {last'.el}
          /\ \A e \in DOMAIN lhCache' : lhCache'[e] = lhCache[e]]_vars

\* C30: a destroyReadMore() that returns true while another element still
\* has an instance leaves the fragments of document.head and CSS_CACHE as
\* they were.
C30_DestroyKeepsStylesOfOthers ==
    [][(last'.op = "destroyReadMore" /\ last'.out = "true"
          /\ DOMAIN reg' # {})
         => UNCHANGED <<styleDom, cssCache>>]_vars

\* destroyReadMore() returned true, the other element of the container
\* still has an instance with another style key, and both keys' fragments
\* are in document.head.
C30_Witness ==
    /\ last.op = "destroyReadMore" /\ last.out = "true"
    /\ \E e \in DOMAIN reg :
          /\ KeyOf(reg[e]) # KeyOf(last.obj)
          /\ QueryStyle(styleDom, KeyOf(reg[e]))
    /\ QueryStyle(styleDom, KeyOf(last.obj))

\* The (targetClass, linesLimit) pairs of the options the model tries.
ModelPairs ==
    {<<ResolveConfig(o).targetClass, ResolveConfig(o).linesLimit>> :
        o \in AcceptedOptions}

\* The key the documentation gives for a pair:
\* readmore-lines-styles-<class>-<limit>
DocumentedKey(tc, limit) ==
    "readmore-lines-styles-" \o tc \o "-" \o ToString(limit)

\* C31: distinct (targetClass, linesLimit) pairs have distinct keys; every
\* fragment of document.head carries the documented key of one pair and
\* no key has two fragments; and a readmore() that builds an instance
\* leaves its pair's documented key in CSS_CACHE with one fragment, one
\* more fragment in all than before when the key was new and as many as
\* before when it was not.
C31_FingerprintPerPair ==
    /\ [](/\ \A p, q \in ModelPairs :
               p # q => CacheKey(p[1], p[2]) # CacheKey(q[1], q[2])
          /\ \A key \in DOMAIN styleDom :
               /\ styleDom[key] = 1
               /\ \E p \in ModelPairs : key = DocumentedKey(p[1], p[2]))
    /\ [][(last'.op = "readmore" /\ last'.out = "created") =>
            LET cfg == objs'[last'.obj].config
                key == DocumentedKey(cfg.targetClass, cfg.linesLimit)
            IN  /\ key \in cssCache'
                /\ StyleCount(styleDom', key) = 1
                /\ Cardinality(DOMAIN styleDom') =
                      Cardinality(DOMAIN styleDom)
                        + (IF key \in DOMAIN styleDom THEN 0 ELSE 1)]_vars

\* Two elements are registered with the same class and different limits,
\* and document.head holds one fragment for each of the two pairs.
C31_Witness ==
    /\ last.op = "readmore" /\ last.out = "created"
    /\ \E e \in DOMAIN reg :
          /\ objs[reg[e]].config.targetClass
               = objs[last.obj].config.targetClass
          /\ objs[reg[e]].config.linesLimit
               # objs[last.obj].config.linesLimit
          /\ StyleCount(styleDom, KeyOf(reg[e])) = 1
    /\ StyleCount(styleDom, KeyOf(last.obj)) = 1
    /\ Cardinality(DOMAIN styleDom) = 2

\* C32: a readmore() that builds an instance whose key is not in CSS_CACHE
\* while document.head holds a fragment with that key adds no fragment and
\* puts the key into CSS_CACHE; and in every state a second addStyle with
\* one key changes nothing after the first.
C32_AdoptExistingFragment ==
    /\ [](\A key \in ModelKeys :
             LET once == addStyle(styleDom, cssCache, key)
             IN  addStyle(once.styleDom, once.cssCache, key) = once)
    /\ [][(last'.op = "readmore" /\ last'.out = "created") =>
            LET key == ConfigKey(objs'[last'.obj].config)
            IN  (key \notin cssCache /\ QueryStyle(styleDom, key))
                => /\ styleDom' = styleDom
                   /\ cssCache' = cssCache \cup {key}]_vars

\* The first instance was built while every fragment of the initial
\* document is still in document.head (no clearReadMoreCache removed
\* them): its key is the only one in CSS_CACHE and no fragment was added.
C32_Witness ==
    /\ last.op = "readmore" /\ last.out = "created"
    /\ Len(objs) = 1
    /\ cssCache = {KeyOf(last.obj)}
    /\ styleDom = [key \in ModelKeys |-> 1]

\* C33 (as claimed): after removeAllEventListeners() of an instance, and
\* after a destroyReadMore() that returned true, the instance's button
\* holds no listener, whatever was registered through addEventListener.
C33_TeardownRemovesEveryListener ==
    (/\ last.op \in {"instance.removeAllEventListeners", "destroyReadMore"}
     /\ last.obj # 0)
        => objs[last.obj].listeners = {}

\* C34: after a readmore() that inserted its button, the button is the
\* node right after the element; a click or a keydown moves no button;
\* and a button leaves the document only by a destroy of its instance.
C34_ControlFollowsTarget ==
    /\ []((last.op = "readmore" /\ last.out = "created") =>
             /\ after[last.el] # <<>>
             /\ Head(after[last.el]) = last.obj)
    /\ [][/\ (last'.op \in {"click", "keydown"}) => after' = after
          /\ \A e \in Elems :
                (after[e] # <<>> /\ after'[e] # after[e]) =>
                    \/ last'.op = "readmore" /\ last'.out = "created"
                       /\ last'.el = e /\ Tail(after'[e]) = after[e]
                    \/ last'.op \in {"destroyReadMore", "instance.destroy"}
                       /\ last'.el = e]_vars
    /\ [](\A e \in DOMAIN reg :
             (~objs[reg[e]].isDestroyed /\ ~InsertBeforeThrows(e))
                => (after[e] # <<>> /\ Head(after[e]) = reg[e]))

\* The button of a registered instance is right after its element after
\* a keydown toggled the instance back to collapsed.
C34_Witness ==
    /\ last.op = "keydown" /\ last.out = "toggled"
    /\ last.el \in DOMAIN reg /\ reg[last.el] = last.obj
    /\ Collapsed(last.obj)
    /\ after[last.el] = <<last.obj>>

\* C35: in every state reached from an empty document.head by the
\* library's calls, a key is in CSS_CACHE exactly when document.head holds
\* exactly one fragment with that key.
C35_StyleRecordCoherence ==
    \A key \in ModelKeys \cup cssCache \cup DOMAIN styleDom :
        isStyleCached(key) <=> StyleCount(styleDom, key) = 1

\* The last instance was destroyed and its key is still in CSS_CACHE, with
\* its fragment, beside a key that is in neither.
C35_Witness ==
    /\ last.op = "destroyReadMore" /\ last.out = "true"
    /\ DOMAIN reg = {}
    /\ isStyleCached(KeyOf(last.obj))
    /\ \E key \in ModelKeys : ~isStyleCached(key) /\ ~QueryStyle(styleDom, key)

\* C36 (as claimed): in every reachable state document.head holds the
\* fragment of the key of every registered instance.
C36_LiveInstancesKeepStyle ==
    \A e \in DOMAIN reg : QueryStyle(styleDom, KeyOf(reg[e]))

\* C37: a click, a keydown or a destroy on one element's instance leaves,
\* for every other element, its registry entry, its classes, its marker,
\* the buttons after it, its cached line height and every instance built
\* for it (text, attributes, listeners, destroyed flag) as they were.
C37_InstanceIsolation ==
    [][(last'.op \in {"click", "keydown", "destroyReadMore",
                      "instance.destroy"}) =>
          /\ \A e \in Elems \ {last'.el} :
                /\ (e \in DOMAIN reg) <=> (e \in DOMAIN reg')
                /\ e \in DOMAIN reg => reg'[e] = reg[e]
                /\ classes'[e] = classes[e]
                /\ marker'[e] = marker[e]
                /\ after'[e] = after[e]
                /\ (e \in DOMAIN lhCache) <=> (e \in DOMAIN lhCache')
                /\ e \in DOMAIN lhCache => lhCache'[e] = lhCache[e]
          /\ Len(objs') = Len(objs)
          /\ \A j \in 1..Len(objs) :
                objs[j].targetElement # last'.el => objs'[j] = objs[j]]_vars

\* An instance was destroyed while the other element of the container has
\* an expanded instance, its button attached and its line height cached.
C37_Witness ==
    /\ last.op = "destroyReadMore" /\ last.out = "true"
    /\ \E e \in DOMAIN reg :
          /\ e # last.el
          /\ Expanded(reg[e])
          /\ Attached(reg[e])
          /\ e \in DOMAIN lhCache

\* C38: a readmore() that passes validation leaves a cached line height
\* for its element, whether it then returns at the gate, at the registry
\* check or builds an instance; a readmore() that fails validation leaves
\* LINE_HEIGHT_CACHE as it was.
C38_ValidatedCallCachesMeasurement ==
    [][(last'.op = "readmore") =>
          /\ (last'.out \in {"gated", "duplicate", "created", "insertFailed"})
                => last'.el \in DOMAIN lhCache'
          /\ (last'.out = "invalid") => lhCache' = lhCache
          /\ \A c \in RejectedCalls, h \in Heights, l \in LineHeights :
                Readmore(c[1], c[2], h, l, 0) => lhCache' = lhCache]_vars

\* readmore() returned at the gate on an element that has no instance, and
\* the element's line height is cached.
C38_Witness ==
    /\ last.op = "readmore" /\ last.out = "gated"
    /\ last.el \notin DOMAIN reg
    /\ isLineHeightCached(last.el)

=============================================================================
